---------------------------- MODULE Spec2Model ----------------------------
(***************************************************************************)
(* A model of the two-pass SIC/XE assembler (SICXE/pass1.py,               *)
(* SICXE/pass2.py, SICXE/utils.py, SICXE/constants.py, main.py).           *)
(*                                                                         *)
(* A Python string is modelled as a sequence of one-character strings, so  *)
(* that tokenising, upper-casing, prefix tests, number recognition and hex *)
(* formatting are computed the way the code computes them.  Python's None  *)
(* and the empty string are both the empty sequence: the code only ever    *)
(* tests these values for truthiness.                                      *)
(***************************************************************************)
EXTENDS Integers, Sequences, FiniteSets, TLC

VARIABLES
    lines,                 \* create_intermediate_file: the lines read from the
                           \* input file (None once it has returned)
    intermediate_lines,    \* the preprocessed source lines (main.py:35)
    pc,                    \* where main() is: in create_intermediate_file
                           \* ("preprocess"), in pass1's loop ("pass1"), past it
                           \* ("pass1_end"), back from pass1 ("pass1_done"), the
                           \* same for pass2, or stopped by an exception of
                           \* either pass ("pass1_failed", "pass2_failed")
    line_num,              \* 1-based index of the next line of the running pass
    error,                 \* the exception that aborted the assembly as
                           \* <<message, line>>, or None
    symbol_table,          \* pass1: label -> address
    locctr,                \* the running pass's location counter
    start_addr,            \* pass1: the START operand (0 without one)
    program_name,          \* pass1: the label of the START line, or None
    program_length,        \* pass1's result: locctr - start_addr
    pass1_output,          \* pass1's listing, one entry per processed line
    pass2_output,          \* pass2's listing, one entry per processed line
    text_records,          \* pass2: the Text records flushed so far
    modification_records,  \* pass2: the Modification records appended so far
    current_text_record,   \* pass2: the object codes of the open Text record
    current_text_start,    \* pass2: its start address (NoStart when closed)
    current_text_length,   \* pass2: its running byte count
    base_addr              \* pass2: the BASE value (NoBase when not set)

vars == <<lines, intermediate_lines, pc, line_num, error, symbol_table, locctr,
          start_addr, program_name, program_length, pass1_output,
          pass2_output, text_records, modification_records,
          current_text_record, current_text_start, current_text_length,
          base_addr>>

None == <<>>
\* an optional integer is <<>> (None) or <<value>>
NoStart == <<>>
NoBase == <<>>

-----------------------------------------------------------------------------
(* Characters and Python's string primitives *)

Whitespace == {" ", "\t", "\n", "\r"}

DecDigits == <<"0","1","2","3","4","5","6","7","8","9">>

HexDigits == <<"0","1","2","3","4","5","6","7","8","9","A","B","C","D","E","F">>

LowerLetters == <<"a","b","c","d","e","f","g","h","i","j","k","l","m","n","o","p","q","r","s","t","u","v","w","x","y","z">>

UpperLetters == <<"A","B","C","D","E","F","G","H","I","J","K","L","M","N","O","P","Q","R","S","T","U","V","W","X","Y","Z">>

Range(s) == {s[i] : i \in 1..Len(s)}

IndexIn(c, s) ==
    IF c \in Range(s) THEN CHOOSE i \in 1..Len(s) : s[i] = c ELSE 0

\* str.upper(), one character
UpperChar(c) ==
    IF c \in Range(LowerLetters) THEN UpperLetters[IndexIn(c, LowerLetters)] ELSE c

\* str.upper()
Upper(s) == [i \in 1..Len(s) |-> UpperChar(s[i])]

RECURSIVE LStrip(_)
LStrip(s) ==
    IF s # <<>> /\ Head(s) \in Whitespace THEN LStrip(Tail(s)) ELSE s

RECURSIVE RStrip(_)
RStrip(s) ==
    IF s # <<>> /\ s[Len(s)] \in Whitespace
    THEN RStrip(SubSeq(s, 1, Len(s) - 1)) ELSE s

\* str.strip()
Strip(s) == RStrip(LStrip(s))

\* str.startswith(prefix)
StartsWith(s, prefix) ==
    Len(s) >= Len(prefix) /\ SubSeq(s, 1, Len(prefix)) = prefix

\* str.endswith(suffix)
EndsWith(s, suffix) ==
    Len(s) >= Len(suffix) /\ SubSeq(s, Len(s) - Len(suffix) + 1, Len(s)) = suffix

\* s[k:] with k counted from 0
DropFirst(s, k) == SubSeq(s, k + 1, Len(s))

\* str.replace(c, '')
Remove(s, c) == SelectSeq(s, LAMBDA ch : ch # c)

RECURSIVE SplitWsFrom(_, _, _, _)
SplitWsFrom(s, i, cur, parts) ==
    IF i > Len(s) THEN (IF cur # <<>> THEN Append(parts, cur) ELSE parts)
    ELSE IF s[i] \in Whitespace
         THEN SplitWsFrom(s, i + 1, <<>>,
                          IF cur # <<>> THEN Append(parts, cur) ELSE parts)
         ELSE SplitWsFrom(s, i + 1, Append(cur, s[i]), parts)

\* str.split(): the maximal runs of non-whitespace
SplitWs(s) == SplitWsFrom(s, 1, <<>>, <<>>)

RECURSIVE SplitOnFrom(_, _, _, _, _)
SplitOnFrom(s, sep, i, cur, parts) ==
    IF i > Len(s) THEN Append(parts, cur)
    ELSE IF s[i] = sep
         THEN SplitOnFrom(s, sep, i + 1, <<>>, Append(parts, cur))
         ELSE SplitOnFrom(s, sep, i + 1, Append(cur, s[i]), parts)

\* str.split(sep): empty pieces are kept
SplitOn(s, sep) == SplitOnFrom(s, sep, 1, <<>>, <<>>)

RECURSIVE JoinFrom(_, _, _)
JoinFrom(parts, k, sep) ==
    IF k > Len(parts) THEN <<>>
    ELSE IF k = Len(parts) THEN parts[k]
    ELSE parts[k] \o sep \o JoinFrom(parts, k + 1, sep)

\* ' '.join(parts[k-1:]) if len(parts) > k-1 else None
JoinRest(parts, k) == IF Len(parts) >= k THEN JoinFrom(parts, k, <<" ">>) ELSE None

RECURSIVE Concat(_)
\* ''.join(seqs)
Concat(seqs) == IF seqs = <<>> THEN <<>> ELSE Head(seqs) \o Concat(Tail(seqs))

-----------------------------------------------------------------------------
(* Numbers: int(s), int(s, 16), format(v, '0nX'), format_hex *)

AllIn(s, digits) == s # <<>> /\ \A i \in 1..Len(s) : s[i] \in Range(digits)

Unsigned(s) == IF s # <<>> /\ Head(s) \in {"+", "-"} THEN Tail(s) ELSE s

Sign(s) == IF s # <<>> /\ Head(s) = "-" THEN -1 ELSE 1

\* whether int(s) succeeds: optional sign, then decimal digits
IsDecimal(s) == AllIn(Unsigned(Strip(s)), DecDigits)

Unprefixed(s) ==
    IF Len(s) >= 2 /\ s[1] = "0" /\ s[2] \in {"x", "X"} THEN DropFirst(s, 2) ELSE s

\* whether int(s, 16) succeeds: optional sign, optional 0x, then hex digits
IsHexadecimal(s) == AllIn(Unprefixed(Upper(Unsigned(Strip(s)))), HexDigits)

RECURSIVE DigitsValue(_, _, _)
DigitsValue(s, digits, radix) ==
    IF s = <<>> THEN 0
    ELSE radix * DigitsValue(SubSeq(s, 1, Len(s) - 1), digits, radix)
         + (IndexIn(s[Len(s)], digits) - 1)

\* int(s), for s that IsDecimal
IntOf(s) == Sign(Strip(s)) * DigitsValue(Unsigned(Strip(s)), DecDigits, 10)

\* int(s, 16), for s that IsHexadecimal
IntOf16(s) ==
    Sign(Strip(s)) * DigitsValue(Unprefixed(Upper(Unsigned(Strip(s)))), HexDigits, 16)

\* utils.is_number
is_number(s) == s # <<>> /\ (IsDecimal(s) \/ IsHexadecimal(s))

RECURSIVE HexOf(_)
\* the hex digits of v >= 0
HexOf(v) ==
    IF v < 16 THEN <<HexDigits[v + 1]>>
    ELSE Append(HexOf(v \div 16), HexDigits[(v % 16) + 1])

RECURSIVE ZeroPad(_, _)
ZeroPad(s, width) == IF Len(s) >= width THEN s ELSE ZeroPad(<<"0">> \o s, width)

\* format(v, '0<width>X'): the sign counts in the width
Format0X(v, width) ==
    IF v < 0 THEN <<"-">> \o ZeroPad(HexOf(-v), width - 1)
    ELSE ZeroPad(HexOf(v), width)

Pow16(length) == IF length = 2 THEN 256 ELSE IF length = 4 THEN 65536 ELSE 16777216

\* utils.format_hex, for length in {2, 4, 6}
format_hex(value, length) ==
    Format0X(IF value < 0 THEN Pow16(length) + value ELSE value, length)

-----------------------------------------------------------------------------
(* constants.py *)

OPCODES ==
    <<"C","A","D","D">> :> <<<<"1","8">>, 3>> @@
    <<"A","D","D">> :> <<<<"1","8">>, 3>> @@
    <<"A","D","D","F">> :> <<<<"5","8">>, 3>> @@
    <<"A","D","D","R">> :> <<<<"9","0">>, 2>> @@
    <<"A","N","D">> :> <<<<"4","0">>, 3>> @@
    <<"C","L","E","A","R">> :> <<<<"B","4">>, 2>> @@
    <<"C","L","O","A","D">> :> <<<<"0","8">>, 3>> @@
    <<"C","O","M","P">> :> <<<<"2","8">>, 3>> @@
    <<"C","O","M","P","F">> :> <<<<"8","8">>, 3>> @@
    <<"C","O","M","P","R">> :> <<<<"A","0">>, 2>> @@
    <<"D","I","V">> :> <<<<"2","4">>, 3>> @@
    <<"D","I","V","F">> :> <<<<"6","4">>, 3>> @@
    <<"D","I","V","R">> :> <<<<"9","C">>, 2>> @@
    <<"J">> :> <<<<"3","C">>, 3>> @@
    <<"J","E","Q">> :> <<<<"3","0">>, 3>> @@
    <<"J","G","T">> :> <<<<"3","4">>, 3>> @@
    <<"J","L","T">> :> <<<<"3","8">>, 3>> @@
    <<"J","S","U","B">> :> <<<<"4","8">>, 3>> @@
    <<"L","D","A">> :> <<<<"0","0">>, 3>> @@
    <<"L","D","B">> :> <<<<"6","8">>, 3>> @@
    <<"L","D","C","H">> :> <<<<"5","0">>, 3>> @@
    <<"L","D","F">> :> <<<<"7","0">>, 3>> @@
    <<"L","D","L">> :> <<<<"0","8">>, 3>> @@
    <<"L","D","$">> :> <<<<"6","C">>, 3>> @@
    <<"L","D","T">> :> <<<<"7","4">>, 3>> @@
    <<"L","D","X">> :> <<<<"0","4">>, 3>> @@
    <<"M","U","L">> :> <<<<"2","0">>, 3>> @@
    <<"M","U","L","F">> :> <<<<"6","0">>, 3>> @@
    <<"M","U","L","R">> :> <<<<"9","8">>, 2>> @@
    <<"O","R">> :> <<<<"4","4">>, 3>> @@
    <<"R","D">> :> <<<<"D","8">>, 3>> @@
    <<"R","M","O">> :> <<<<"A","C">>, 2>> @@
    <<"R","S","U","B">> :> <<<<"4","C">>, 3>> @@
    <<"S","H","I","F","T","L">> :> <<<<"A","4">>, 2>> @@
    <<"S","H","I","F","T","R">> :> <<<<"A","8">>, 2>> @@
    <<"S","T","A">> :> <<<<"0","C">>, 3>> @@
    <<"S","T","B">> :> <<<<"7","8">>, 3>> @@
    <<"S","T","C","H">> :> <<<<"5","4">>, 3>> @@
    <<"S","T","F">> :> <<<<"8","0">>, 3>> @@
    <<"S","T","I">> :> <<<<"D","4">>, 3>> @@
    <<"S","T","L">> :> <<<<"1","4">>, 3>> @@
    <<"S","T","$">> :> <<<<"7","C">>, 3>> @@
    <<"S","T","S","W">> :> <<<<"E","8">>, 3>> @@
    <<"S","T","T">> :> <<<<"8","4">>, 3>> @@
    <<"S","T","X">> :> <<<<"1","0">>, 3>> @@
    <<"S","U","B">> :> <<<<"1","C">>, 3>> @@
    <<"S","U","B","F">> :> <<<<"5","C">>, 3>> @@
    <<"S","U","B","R">> :> <<<<"9","4">>, 2>> @@
    <<"S","V","C">> :> <<<<"B","0">>, 2>> @@
    <<"T","D">> :> <<<<"E","0">>, 3>> @@
    <<"T","I","X">> :> <<<<"2","C">>, 3>> @@
    <<"T","I","X","R">> :> <<<<"B","8">>, 2>> @@
    <<"W","D">> :> <<<<"D","C">>, 3>> @@
    <<"F","I","X">> :> <<<<"C","4">>, 1>> @@
    <<"F","L","O","A","T">> :> <<<<"C","0">>, 1>> @@
    <<"H","I","O">> :> <<<<"F","4">>, 1>> @@
    <<"N","O","R","M">> :> <<<<"C","8">>, 1>> @@
    <<"S","I","O">> :> <<<<"F","0">>, 1>> @@
    <<"T","I","O">> :> <<<<"F","8">>, 1>>

OpcodeNames == DOMAIN OPCODES

REGISTERS ==
    <<"A">> :> 0 @@ <<"X">> :> 1 @@ <<"L">> :> 2 @@ <<"B">> :> 3 @@ <<"$">> :> 4 @@
    <<"T">> :> 5 @@ <<"F">> :> 6 @@ <<"P","C">> :> 8 @@ <<"S","W">> :> 9 @@ <<"Z">> :> 0

RegisterNames == DOMAIN REGISTERS

DIRECTIVES ==
    {<<"S","T","A","R","T">>, <<"E","N","D">>, <<"B","Y","T","E">>, <<"W","O","R","D">>, <<"R","E","S","B">>, <<"R","E","S","W">>, <<"B","A","S","E">>, <<"N","O","B","A","S","E">>}

-----------------------------------------------------------------------------
(* Line and operand parsing *)

\* word in OPCODES or word in DIRECTIVES or
\* (word.startswith('+') and word[1:] in OPCODES)
IsOpcodeWord(word) ==
    \/ word \in OpcodeNames
    \/ word \in DIRECTIVES
    \/ (StartsWith(word, <<"+">>) /\ DropFirst(word, 1) \in OpcodeNames)

Parsed(label, opcode, operand) ==
    [label |-> label, opcode |-> opcode, operand |-> operand]

\* line[:line.index(';')] when ';' is in the line
CutComment(line) ==
    IF ";" \in Range(line)
    THEN SubSeq(line, 1, (CHOOSE i \in 1..Len(line) :
                             line[i] = ";" /\ \A j \in 1..(i - 1) : line[j] # ";") - 1)
    ELSE line

\* pass1.enhanced_parse_line, after its comment removal: the stripped line
\* never starts with whitespace, so starts_with_whitespace is False
EnhancedParts(parts) ==
    IF Len(parts) >= 2
    THEN IF IsOpcodeWord(Upper(parts[2]))
         THEN Parsed(parts[1], Upper(parts[2]), JoinRest(parts, 3))
         ELSE IF IsOpcodeWord(Upper(parts[1]))
              THEN Parsed(None, Upper(parts[1]), JoinRest(parts, 2))
              ELSE Parsed(parts[1], Upper(parts[2]), JoinRest(parts, 3))
    ELSE IF IsOpcodeWord(Upper(parts[1]))
         THEN Parsed(None, Upper(parts[1]), JoinRest(parts, 2))
         ELSE Parsed(parts[1], None, None)

enhanced_parse_line(line) ==
    LET stripped == Strip(line)
        cut == Strip(CutComment(stripped))
        parts == SplitWs(cut)
    IN  IF stripped = <<>> \/ StartsWith(stripped, <<";">>) \/ cut = <<>> \/ parts = <<>>
        THEN Parsed(None, None, None)
        ELSE EnhancedParts(parts)

RECURSIVE QuoteSplitFrom(_, _, _, _, _)
\* the tokenising loop of utils.parse_line; quote_char is None outside quotes
QuoteSplitFrom(line, i, current_part, quote_char, parts) ==
    IF i > Len(line)
    THEN (IF current_part # <<>> THEN Append(parts, current_part) ELSE parts)
    ELSE LET char == line[i] IN
         IF char \in {"'", "\""} /\ quote_char = None
         THEN QuoteSplitFrom(line, i + 1, Append(current_part, char), <<char>>, parts)
         ELSE IF quote_char # None /\ <<char>> = quote_char
         THEN QuoteSplitFrom(line, i + 1, Append(current_part, char), None, parts)
         ELSE IF char \in Whitespace /\ quote_char = None
         THEN QuoteSplitFrom(line, i + 1, <<>>,
                  quote_char,
                  IF current_part # <<>> THEN Append(parts, current_part) ELSE parts)
         ELSE QuoteSplitFrom(line, i + 1, Append(current_part, char), quote_char, parts)

\* utils.parse_line
parse_line(line) ==
    LET parts == QuoteSplitFrom(Strip(line), 1, <<>>, None, <<>>)
    IN  IF parts = <<>> THEN Parsed(None, None, None)
        ELSE IF IsOpcodeWord(Upper(parts[1]))
             THEN Parsed(None, Upper(parts[1]), JoinRest(parts, 2))
             ELSE Parsed(parts[1],
                         IF Len(parts) > 1 THEN Upper(parts[2]) ELSE None,
                         JoinRest(parts, 3))

Operand(value, mode, indexed) == [value |-> value, mode |-> mode, indexed |-> indexed]

\* utils.parse_single_operand
parse_single_operand(operand, indexed) ==
    IF operand = <<>> THEN Operand(None, "simple", indexed)
    ELSE LET spaceless == Remove(operand, " ")
             isIndexed == indexed \/ EndsWith(Upper(spaceless), <<",","X">>)
             op == IF ~indexed /\ EndsWith(Upper(spaceless), <<",","X">>)
                   THEN SubSeq(spaceless, 1, Len(spaceless) - 2) ELSE spaceless
         IN  IF StartsWith(op, <<"#">>) THEN Operand(DropFirst(op, 1), "immediate", isIndexed)
             ELSE IF StartsWith(op, <<"@">>) THEN Operand(DropFirst(op, 1), "indirect", isIndexed)
             ELSE Operand(op, "simple", isIndexed)

\* the pieces of a comma list that are not register names, each stripped
NonRegisters(operands) ==
    SelectSeq(operands, LAMBDA op : Strip(op) # <<>> /\ Upper(Strip(op)) \notin RegisterNames)

\* utils.parse_operand
parse_operand(operand) ==
    IF operand = <<>> THEN Operand(None, "simple", FALSE)
    ELSE IF "," \in Range(Remove(operand, " "))
    THEN LET all == [i \in 1..Len(SplitOn(operand, ",")) |-> Strip(SplitOn(operand, ",")[i])]
             indexed == Len(all) > 1 /\ Upper(all[Len(all)]) = <<"X">>
             operands == IF indexed THEN SubSeq(all, 1, Len(all) - 1) ELSE all
             candidates == NonRegisters(operands)
         IN  IF candidates # <<>>
             THEN parse_single_operand(Strip(candidates[1]), indexed)
             ELSE parse_single_operand(all[1], indexed)
    ELSE parse_single_operand(operand, FALSE)

Ok(v) == [ok |-> TRUE, val |-> v, err |-> ""]

\* a raised exception
Err(message) == [ok |-> FALSE, val |-> 0, err |-> message]

IsQuoted(operand, letter) ==
    StartsWith(operand, <<letter, "'">>) /\ EndsWith(operand, <<"'">>)

\* operand[2:-1]
Quoted(operand) == SubSeq(operand, 3, Len(operand) - 1)

\* utils.calculate_byte_length
calculate_byte_length(operand) ==
    IF IsQuoted(operand, "C") THEN Ok(Len(Quoted(operand)))
    ELSE IF IsQuoted(operand, "X") THEN Ok((Len(Quoted(operand)) + 1) \div 2)
    ELSE Err("Invalid BYTE operand")

\* the printable ASCII characters 32..95
PrintableLow ==
    <<" ", "!", "\"", "#", "$", "%", "&", "'", "(", ")", "*", "+", ",", "-", ".", "/",
      "0", "1", "2", "3", "4", "5", "6", "7", "8", "9", ":", ";", "<", "=", ">", "?",
      "@", "A", "B", "C", "D", "E", "F", "G", "H", "I", "J", "K", "L", "M", "N", "O",
      "P", "Q", "R", "S", "T", "U", "V", "W", "X", "Y", "Z", "[", "\\", "]", "^", "_">>

\* the printable ASCII characters 97..126
PrintableHigh ==
    <<"a", "b", "c", "d", "e", "f", "g", "h", "i", "j", "k", "l", "m", "n", "o",
      "p", "q", "r", "s", "t", "u", "v", "w", "x", "y", "z", "{", "|", "}", "~">>

\* ord(c), for these characters
Ord(c) ==
    IF c \in Range(PrintableLow) THEN 31 + IndexIn(c, PrintableLow)
    ELSE 96 + IndexIn(c, PrintableHigh)

\* utils.byte_to_object_code
byte_to_object_code(operand) ==
    IF IsQuoted(operand, "C")
    THEN Ok(Concat([i \in 1..Len(Quoted(operand)) |-> Format0X(Ord(Quoted(operand)[i]), 2)]))
    ELSE IF IsQuoted(operand, "X")
    THEN Ok(Upper(IF Len(Quoted(operand)) % 2 = 1
                  THEN Append(Quoted(operand), "0") ELSE Quoted(operand)))
    ELSE Err("Invalid BYTE operand")

\* utils.calculate_displacement
calculate_displacement(target_addr, pc_addr, base) ==
    LET pc_disp == target_addr - pc_addr
    IN  IF -2048 <= pc_disp /\ pc_disp <= 2047 THEN <<pc_disp, "pc">>
        ELSE IF base # <<>> /\ 0 <= target_addr - base[1] /\ target_addr - base[1] <= 4095
        THEN <<target_addr - base[1], "base">>
        ELSE <<target_addr, "direct">>

-----------------------------------------------------------------------------
(* Preprocessing (utils.create_intermediate_file) *)

\* the leading run of decimal digits of a line
RECURSIVE LeadingDigits(_)
LeadingDigits(s) ==
    IF s # <<>> /\ Head(s) \in Range(DecDigits)
    THEN <<Head(s)>> \o LeadingDigits(Tail(s)) ELSE <<>>

\* re.sub(r'^\d+\s+', '', line): a leading run of digits and the whitespace
\* after it are removed, if there is at least one of each
RemoveLineNumber(line) ==
    LET rest == SubSeq(line, Len(LeadingDigits(line)) + 1, Len(line))
    IN  IF LeadingDigits(line) # <<>> /\ rest # <<>> /\ Head(rest) \in Whitespace
        THEN LStrip(rest) ELSE line

\* re.sub(r';.*$', '', line): the line is cut at its first ';'
RemoveComment(line) ==
    IF \E i \in 1..Len(line) : line[i] = ";"
    THEN SubSeq(line, 1, (CHOOSE i \in 1..Len(line) :
                             line[i] = ";" /\ \A j \in 1..(i - 1) : line[j] # ";") - 1)
    ELSE line

\* what the loop of create_intermediate_file makes of one line
PreprocessLine(line) == Strip(RemoveComment(RemoveLineNumber(Strip(line))))

\* create_intermediate_file as a function of the lines read: the preprocessed
\* lines that are not empty, in order
RECURSIVE create_intermediate_file(_)
create_intermediate_file(read) ==
    IF read = <<>> THEN <<>>
    ELSE (IF PreprocessLine(Head(read)) # <<>> THEN <<PreprocessLine(Head(read))>>
          ELSE <<>>) \o create_intermediate_file(Tail(read))

-----------------------------------------------------------------------------
(* Pass 1 (pass1.py) *)

\* int(operand) under "if operand and is_number(operand)": is_number accepts
\* hexadecimal, int() does not and raises ValueError
IntOperand(operand, message) ==
    IF operand # None /\ is_number(operand)
    THEN IF IsDecimal(operand) THEN Ok(IntOf(operand))
         ELSE Err("invalid literal for int()")
    ELSE Err(message)

\* the length of an instruction by its format; a '+' prefix makes it 4
FormatLength(opcode, format_num) ==
    IF StartsWith(opcode, <<"+">>) THEN 4
    ELSE IF format_num = 1 THEN 1
    ELSE IF format_num = 2 THEN 2
    ELSE 3

\* opcode[1:] if opcode.startswith('+') else opcode
BaseOpcode(opcode) ==
    IF StartsWith(opcode, <<"+">>) THEN DropFirst(opcode, 1) ELSE opcode

\* pass1: what an instruction line adds to locctr
Pass1InstructionLength(opcode) ==
    LET base_opcode == BaseOpcode(opcode)
    IN  IF StartsWith(base_opcode, <<"C">>) /\ Len(base_opcode) > 1
        THEN IF DropFirst(base_opcode, 1) \in OpcodeNames THEN Ok(3)
             ELSE IF base_opcode \in OpcodeNames
             THEN Ok(FormatLength(opcode, OPCODES[base_opcode][2]))
             ELSE Err("Invalid conditional opcode")
        ELSE IF base_opcode \notin OpcodeNames THEN Err("Invalid opcode")
        ELSE Ok(FormatLength(opcode, OPCODES[base_opcode][2]))

\* pass1: what a directive line other than START and END adds to locctr
Pass1DirectiveLength(opcode, operand) ==
    IF opcode = <<"W","O","R","D">> THEN Ok(3)
    ELSE IF opcode = <<"R","E","S","W">>
    THEN LET n == IntOperand(operand, "Invalid RESW operand")
         IN  IF n.ok THEN Ok(n.val * 3) ELSE n
    ELSE IF opcode = <<"R","E","S","B">> THEN IntOperand(operand, "Invalid RESB operand")
    ELSE IF opcode = <<"B","Y","T","E">> THEN calculate_byte_length(operand)
    ELSE Ok(0)

\* pass1: the operand of START as an address
Pass1StartOperand(operand) ==
    IF is_number(operand)
    THEN IF IsDecimal(operand) THEN Ok(IntOf(operand))
         ELSE Err("invalid literal for int()")
    ELSE IF IsHexadecimal(operand) THEN Ok(IntOf16(operand))
    ELSE Err("Invalid START operand")

\* a pass1 without the duplicate check: a later definition replaces the earlier
NeverDuplicate(label, table) == FALSE

\* "if label in symbol_table: raise ValueError(Duplicate label)"
IsDuplicateLabel(label, table) == label \in DOMAIN table

\* a pass1 that stores the address after a three-byte line instead
AddSymbolAfterLine(table, label, current_locctr) == (label :> current_locctr + 3) @@ table

\* "symbol_table[label] = current_locctr"
AddSymbol(table, label, current_locctr) == (label :> current_locctr) @@ table

\* a pass1 without the branch for unknown opcodes: they reach the instruction
\* branch, which raises
NoOpcodeIsUnknown(opcode) == FALSE

\* "Unknown opcode or directive": the line is listed and skipped
IsUnknownOpcode(opcode) ==
    ~(opcode \in DIRECTIVES \/ opcode \in OpcodeNames \/ StartsWith(opcode, <<"+">>))

\* one entry of pass1's listing, f"{format_hex(addr, 4)} {original_line}":
\* the address, and the number of the line whose text follows it
Pass1Entry(addr, line) == [addr |-> format_hex(addr, 4), line |-> line]

Pass1Failed(message) ==
    /\ pc' = "pass1_failed"
    /\ error' = <<message, line_num>>
    /\ UNCHANGED <<line_num, symbol_table, locctr, start_addr, program_name,
                   pass1_output>>

Pass1Continue(next_pc, table, next_locctr, next_start, next_name, listed) ==
    /\ pc' = next_pc
    /\ error' = error
    /\ line_num' = line_num + 1
    /\ symbol_table' = table
    /\ locctr' = next_locctr
    /\ start_addr' = next_start
    /\ program_name' = next_name
    /\ pass1_output' = Append(pass1_output,
                              Pass1Entry(listed, line_num))

\* one iteration of pass1's loop
Pass1Line ==
    /\ pc = "pass1"
    /\ line_num <= Len(intermediate_lines)
    /\ LET p == enhanced_parse_line(intermediate_lines[line_num])
           label == p.label
           opcode == p.opcode
           operand == p.operand
           current_locctr == locctr
           table == IF label # None THEN AddSymbol(symbol_table, label, current_locctr)
                    ELSE symbol_table
           start == Pass1StartOperand(operand)
           length == IF opcode \in DIRECTIVES THEN Pass1DirectiveLength(opcode, operand)
                     ELSE Pass1InstructionLength(opcode)
       IN  IF opcode = None
           THEN Pass1Continue("pass1", symbol_table, locctr, start_addr,
                              program_name, locctr)
           ELSE IF opcode = <<"S","T","A","R","T">>
           THEN IF operand # None /\ ~start.ok THEN Pass1Failed(start.err)
                ELSE Pass1Continue("pass1", symbol_table,
                        IF operand # None THEN start.val ELSE locctr,
                        IF operand # None THEN start.val ELSE start_addr,
                        IF label # None THEN label ELSE program_name,
                        IF operand # None THEN start.val ELSE locctr)
           ELSE IF label # None /\ IsDuplicateLabel(label, symbol_table)
           THEN Pass1Failed("Duplicate label")
           ELSE IF opcode = <<"E","N","D">>
           THEN Pass1Continue("pass1_end", table, locctr, start_addr,
                              program_name, current_locctr)
           ELSE IF IsUnknownOpcode(opcode)
           THEN Pass1Continue("pass1", table, locctr, start_addr,
                              program_name, current_locctr)
           ELSE IF ~length.ok THEN Pass1Failed(length.err)
           ELSE Pass1Continue("pass1", table, locctr + length.val, start_addr,
                              program_name, current_locctr)
    /\ UNCHANGED <<lines, intermediate_lines, program_length, pass2_output,
                   text_records,
                   modification_records, current_text_record, current_text_start,
                   current_text_length, base_addr>>

\* pass1's loop ends (END, or no more lines): it returns to main
Pass1Return ==
    /\ pc = "pass1_end" \/ (pc = "pass1" /\ line_num > Len(intermediate_lines))
    /\ pc' = "pass1_done"
    /\ program_length' = locctr - start_addr
    /\ UNCHANGED <<lines, intermediate_lines, line_num, error, symbol_table, locctr,
                   start_addr, program_name, pass1_output, pass2_output,
                   text_records, modification_records, current_text_record,
                   current_text_start, current_text_length, base_addr>>

-----------------------------------------------------------------------------
(* Pass 2 (pass2.py) *)

RECURSIVE BitOr(_, _)
\* a | b, for a, b >= 0
BitOr(a, b) ==
    IF a = 0 THEN b
    ELSE IF b = 0 THEN a
    ELSE (IF a % 2 = 1 \/ b % 2 = 1 THEN 1 ELSE 0) + 2 * BitOr(a \div 2, b \div 2)

\* the n and i flags of an addressing mode
FlagN(mode) == IF mode = "immediate" THEN 0 ELSE 1

FlagI(mode) == IF mode = "indirect" THEN 0 ELSE 1

\* format(opcode_int | (n << 1) | i, '02X')
OpcodeWithFlags(opcode_hex, mode) ==
    Format0X(BitOr(IntOf16(opcode_hex), BitOr(FlagN(mode) * 2, FlagI(mode))), 2)

\* format((x << 3) | (b << 2) | (p << 1) | e, 'X')
Xbpe(x, b, p, e) == HexOf(BitOr(BitOr(x * 8, b * 4), BitOr(p * 2, e)))

\* pass2.generate_format2_code
generate_format2_code(opcode_hex, operand) ==
    IF operand = None THEN Ok(opcode_hex \o <<"0","0">>)
    ELSE IF "," \in Range(operand)
    THEN LET pieces == SplitOn(operand, ",")
             reg1 == Upper(Strip(pieces[1]))
             reg2 == Upper(Strip(pieces[2]))
         IN  IF reg1 # <<>> /\ reg1 \notin RegisterNames THEN Err("Invalid register")
             ELSE IF reg2 # <<>> /\ reg2 \notin RegisterNames THEN Err("Invalid register")
             ELSE Ok(opcode_hex
                     \o HexOf(IF reg1 # <<>> THEN REGISTERS[reg1] ELSE 0)
                     \o HexOf(IF reg2 # <<>> THEN REGISTERS[reg2] ELSE 0))
    ELSE LET reg == Upper(Strip(operand))
         IN  IF reg \notin RegisterNames THEN Err("Invalid register")
             ELSE Ok(opcode_hex \o HexOf(REGISTERS[reg]) \o <<"0">>)

\* "disp & 0xFFF" when disp < 0 or disp > 4095
Disp12(disp) == IF disp < 0 \/ disp > 4095 THEN disp % 4096 ELSE disp

\* generate_format3_code, from "Calculate flags" on, for a parsed operand
Format3Encode(opcode_hex, po, table, base, next_addr) ==
    LET value == po.value
        x == IF po.indexed THEN 1 ELSE 0
        known == ~is_number(value) /\ value \in DOMAIN table
        dm == calculate_displacement(table[value], next_addr, base)
        disp == IF is_number(value) THEN IntOf(value)
                ELSE IF known THEN dm[1]
                ELSE 0
        p == IF known /\ dm[2] = "pc" THEN 1 ELSE 0
        b == IF known /\ dm[2] = "base" THEN 1 ELSE 0
    IN  IF is_number(value) /\ ~IsDecimal(value)
        THEN Err("invalid literal for int()")
        ELSE Ok(OpcodeWithFlags(opcode_hex, po.mode) \o Xbpe(x, b, p, 0)
                \o Format0X(Disp12(disp), 3))

\* a generate_format3_code that raises on an undefined symbol
generate_format3_code_strict(opcode_hex, operand, table, current_addr, base, next_addr) ==
    IF operand = None THEN Ok(opcode_hex \o <<"0","0","0","0">>)
    ELSE IF /\ ~is_number(parse_operand(operand).value)
            /\ parse_operand(operand).value \notin DOMAIN table
    THEN Err("Undefined symbol")
    ELSE Format3Encode(opcode_hex, parse_operand(operand), table, base, next_addr)

\* pass2.generate_format3_code; parse_operand raises nothing, so the
\* except branch around it is never taken
generate_format3_code(opcode_hex, operand, table, current_addr, base, next_addr) ==
    IF operand = None THEN Ok(opcode_hex \o <<"0","0","0","0">>)
    ELSE Format3Encode(opcode_hex, parse_operand(operand), table, base, next_addr)

\* f"M^{format_hex(mod_addr, 6)}^05"
ModificationRecord(mod_addr) == [addr |-> format_hex(mod_addr, 6), length |-> <<"0","5">>]

\* "mod_addr = current_addr + 1  # Address of the address field"
ModAddr(current_addr) == current_addr + 1

\* a generate_format4_code that appends for a symbol in any addressing mode
NeedsModificationAnyMode(value, mode, table) ==
    ~is_number(value) /\ value \in DOMAIN table

\* generate_format4_code appends a Modification record for these operands
NeedsModification(value, mode, table) ==
    /\ ~is_number(value)
    /\ value \in DOMAIN table
    /\ (mode = "simple" \/ mode = "indirect")

\* pass2.generate_format4_code: <<the code or the exception, modification_records>>
generate_format4_code(opcode_hex, operand, table, current_addr, mods) ==
    IF operand = None THEN <<Ok(opcode_hex \o <<"0","0","0","0","0","0">>), mods>>
    ELSE LET po == parse_operand(operand)
             value == po.value
             x == IF po.indexed THEN 1 ELSE 0
             target_addr == IF is_number(value) THEN IntOf(value)
                            ELSE IF value \in DOMAIN table THEN table[value]
                            ELSE 0
         IN  IF is_number(value) /\ ~IsDecimal(value)
             THEN <<Err("invalid literal for int()"), mods>>
             ELSE <<Ok(OpcodeWithFlags(opcode_hex, po.mode) \o Xbpe(x, 0, 0, 1)
                       \o Format0X(target_addr, 5)),
                    IF NeedsModification(value, po.mode, table)
                    THEN Append(mods, ModificationRecord(ModAddr(current_addr)))
                    ELSE mods>>

\* pass2.create_text_record: f"T^{addr}^{length}^{combined_code}"
create_text_record(start, object_codes) ==
    [addr |-> format_hex(start, 6),
     length |-> format_hex(Len(Concat(object_codes)) \div 2, 2),
     code |-> Concat(object_codes)]

\* what pass2 computes for one line: the exception (or none), whether the loop
\* breaks, the new locctr and BASE, the object code, the Modification records
\* and whether the open Text record is flushed first
Encoded(result, stop, next_locctr, base, mods, flush) ==
    [ok |-> result.ok, err |-> result.err, stop |-> stop, locctr |-> next_locctr,
     base |-> base, object_code |-> IF result.ok THEN result.val ELSE <<>>,
     mods |-> mods, flush |-> flush]

\* pass2: the object code pass2 falls back to when an encoder raises
FallbackCode(opcode_hex, format_num) ==
    IF format_num = 1 THEN opcode_hex
    ELSE IF format_num = 2 THEN opcode_hex \o <<"0","0">>
    ELSE opcode_hex \o <<"0","0","0","0">>

\* pass2: what the fallback adds to locctr
FallbackLength(format_num) ==
    IF format_num = 1 THEN 1 ELSE IF format_num = 2 THEN 2 ELSE 3

\* pass2: "if unconditional_opcode in OPCODES and base_opcode not in OPCODES"
Pass2BaseOpcode(opcode) ==
    LET base_opcode == BaseOpcode(opcode)
    IN  IF /\ StartsWith(base_opcode, <<"C">>) /\ Len(base_opcode) > 1
           /\ DropFirst(base_opcode, 1) \in OpcodeNames
           /\ base_opcode \notin OpcodeNames
        THEN DropFirst(base_opcode, 1) ELSE base_opcode

\* pass2: an instruction line
Pass2Instruction(opcode, operand) ==
    LET base_opcode == Pass2BaseOpcode(opcode)
        opcode_hex == OPCODES[base_opcode][1]
        format_num == OPCODES[base_opcode][2]
        f4 == generate_format4_code(opcode_hex, operand, symbol_table, locctr,
                                    modification_records)
        f2 == generate_format2_code(opcode_hex, operand)
        f3 == generate_format3_code(opcode_hex, operand, symbol_table, locctr,
                                    base_addr, locctr)
        fallback == Encoded(Ok(FallbackCode(opcode_hex, format_num)), FALSE,
                            locctr + FallbackLength(format_num), base_addr,
                            modification_records, FALSE)
    IN  IF base_opcode \notin OpcodeNames
        THEN Encoded(Ok(<<"0","0","0","0","0","0">>), FALSE, locctr + 3, base_addr,
                     modification_records, FALSE)
        ELSE IF StartsWith(opcode, <<"+">>)
        THEN IF f4[1].ok
             THEN Encoded(f4[1], FALSE, locctr + 4, base_addr, f4[2], FALSE)
             ELSE fallback
        ELSE IF format_num = 1
        THEN Encoded(Ok(opcode_hex), FALSE, locctr + 1, base_addr,
                     modification_records, FALSE)
        ELSE IF format_num = 2
        THEN IF f2.ok
             THEN Encoded(f2, FALSE, locctr + 2, base_addr, modification_records, FALSE)
             ELSE fallback
        ELSE IF f3.ok
             THEN Encoded(f3, FALSE, locctr + 3, base_addr, modification_records, FALSE)
             ELSE fallback

\* pass2: a directive line other than START
Pass2Directive(opcode, operand) ==
    LET n == IntOperand(operand, "Invalid operand")
        code == byte_to_object_code(operand)
        plain(result, next_locctr, flush) ==
            Encoded(result, FALSE, next_locctr, base_addr, modification_records, flush)
    IN  IF opcode = <<"E","N","D">>
        THEN Encoded(Ok(<<>>), TRUE, locctr, base_addr, modification_records, FALSE)
        ELSE IF opcode = <<"W","O","R","D">>
        THEN plain(IF n.ok THEN Ok(format_hex(n.val, 6)) ELSE n, locctr + 3, FALSE)
        ELSE IF opcode = <<"R","E","S","W">>
        THEN plain(IF n.ok THEN Ok(<<>>) ELSE n, locctr + n.val * 3, TRUE)
        ELSE IF opcode = <<"R","E","S","B">>
        THEN plain(IF n.ok THEN Ok(<<>>) ELSE n, locctr + n.val, TRUE)
        ELSE IF opcode = <<"B","Y","T","E">>
        THEN plain(code, locctr + (Len(code.val) \div 2), FALSE)
        ELSE IF opcode = <<"B","A","S","E">>
        THEN IF operand \in DOMAIN symbol_table
             THEN Encoded(Ok(<<>>), FALSE, locctr, <<symbol_table[operand]>>,
                          modification_records, FALSE)
             ELSE IF is_number(operand)
             THEN Encoded(IF n.ok THEN Ok(<<>>) ELSE n, FALSE, locctr, <<n.val>>,
                          modification_records, FALSE)
             ELSE plain(Err("Invalid BASE operand"), locctr, FALSE)
        ELSE plain(Ok(<<>>), locctr, FALSE)

\* one entry of pass2's listing,
\* f"{format_hex(addr, 4)} {original_line:<30} {object_code}": the address, the
\* number of the line whose text follows it, and the object code
Pass2Entry(addr, line, object_code) ==
    [addr |-> format_hex(addr, 4), line |-> line, object_code |-> object_code]

\* "if current_text_record: text_records.append(create_text_record(...))"
Flushed ==
    IF current_text_record # <<>>
    THEN Append(text_records, create_text_record(current_text_start[1],
                                                 current_text_record))
    ELSE text_records

\* the cap on a Text record's byte count
MaxTextBytes == 30

\* "Check if we need to start a new text record"
NeedsNewRecord(start, length, object_code_bytes, current_locctr) ==
    \/ start = NoStart
    \/ length + object_code_bytes > MaxTextBytes
    \/ current_locctr # start[1] + length

Pass2Failed(message) ==
    /\ pc' = "pass2_failed"
    /\ error' = <<message, line_num>>
    /\ UNCHANGED <<line_num, locctr, pass2_output, text_records,
                   modification_records, current_text_record, current_text_start,
                   current_text_length, base_addr>>

\* a line without an opcode, or a START line: listed without object code
Pass2Skip(next_locctr) ==
    /\ pc' = "pass2"
    /\ error' = error
    /\ line_num' = line_num + 1
    /\ locctr' = next_locctr
    /\ pass2_output' = Append(pass2_output,
                              Pass2Entry(locctr, line_num, <<>>))
    /\ UNCHANGED <<text_records, modification_records, current_text_record,
                   current_text_start, current_text_length, base_addr>>

\* the record builder, after the directive's own flush
Pass2Emit(e) ==
    LET current_locctr == locctr
        object_code_bytes == Len(e.object_code) \div 2
        \* the builder's state after a RESW/RESB flush
        records == IF e.flush THEN Flushed ELSE text_records
        open == IF e.flush /\ current_text_record # <<>> THEN <<>> ELSE current_text_record
        start == IF e.flush /\ current_text_record # <<>> THEN NoStart ELSE current_text_start
        length == IF e.flush /\ current_text_record # <<>> THEN 0 ELSE current_text_length
    IN  /\ pc' = IF e.stop THEN "pass2_end" ELSE "pass2"
        /\ error' = error
        /\ line_num' = line_num + 1
        /\ locctr' = e.locctr
        /\ base_addr' = e.base
        /\ modification_records' = e.mods
        /\ pass2_output' = Append(pass2_output,
               Pass2Entry(current_locctr, line_num, e.object_code))
        /\ IF e.object_code = <<>>
           THEN /\ text_records' = records
                /\ current_text_record' = open
                /\ current_text_start' = start
                /\ current_text_length' = length
           ELSE IF NeedsNewRecord(start, length, object_code_bytes, current_locctr)
           THEN /\ text_records' = IF open # <<>>
                                   THEN Append(records, create_text_record(start[1], open))
                                   ELSE records
                /\ current_text_record' = <<e.object_code>>
                /\ current_text_start' = <<current_locctr>>
                /\ current_text_length' = object_code_bytes
           ELSE /\ text_records' = records
                /\ current_text_record' = Append(open, e.object_code)
                /\ current_text_start' = start
                /\ current_text_length' = length + object_code_bytes

\* main calls pass2, which initialises its locals
Pass2Start ==
    /\ pc = "pass1_done"
    /\ pc' = "pass2"
    /\ locctr' = start_addr
    /\ line_num' = 1
    /\ pass2_output' = <<>>
    /\ text_records' = <<>>
    /\ modification_records' = <<>>
    /\ current_text_record' = <<>>
    /\ current_text_start' = NoStart
    /\ current_text_length' = 0
    /\ base_addr' = NoBase
    /\ UNCHANGED <<lines, intermediate_lines, error, symbol_table, start_addr,
                   program_name, program_length, pass1_output>>

\* one iteration of pass2's loop
Pass2Line ==
    /\ pc = "pass2"
    /\ line_num <= Len(intermediate_lines)
    /\ LET p == parse_line(intermediate_lines[line_num])
           opcode == p.opcode
           operand == p.operand
           start == IntOperand(operand, "")
           e == IF opcode \in DIRECTIVES THEN Pass2Directive(opcode, operand)
                ELSE IF opcode \in OpcodeNames \/ StartsWith(opcode, <<"+">>)
                THEN Pass2Instruction(opcode, operand)
                ELSE Encoded(Ok(<<>>), FALSE, locctr, base_addr,
                             modification_records, FALSE)
       IN  IF opcode = None THEN Pass2Skip(locctr)
           ELSE IF opcode = <<"S","T","A","R","T">>
           THEN IF operand # None /\ is_number(operand)
                THEN IF start.ok THEN Pass2Skip(start.val) ELSE Pass2Failed(start.err)
                ELSE Pass2Skip(locctr)
           ELSE IF ~e.ok THEN Pass2Failed(e.err)
           ELSE Pass2Emit(e)
    /\ UNCHANGED <<lines, intermediate_lines, symbol_table, start_addr, program_name,
                   program_length, pass1_output>>

\* pass2's loop ends: the open Text record is flushed and pass2 returns
Pass2Return ==
    /\ pc = "pass2_end" \/ (pc = "pass2" /\ line_num > Len(intermediate_lines))
    /\ pc' = "pass2_done"
    /\ text_records' = Flushed
    /\ UNCHANGED <<lines, intermediate_lines, line_num, error, symbol_table, locctr,
                   start_addr, program_name, program_length, pass1_output,
                   pass2_output, modification_records, current_text_record,
                   current_text_start, current_text_length, base_addr>>

-----------------------------------------------------------------------------

(* The object program (main.py, pass2.write_htme_output) *)

\* main: "symbol_table.get(program_name) if program_name else start_addr",
\* with <<>> for None
entry_point ==
    IF program_name # None
    THEN IF program_name \in DOMAIN symbol_table
         THEN <<symbol_table[program_name]>> ELSE <<>>
    ELSE <<start_addr>>

\* the End record write_htme_output writes for what the passes returned
EndRecord ==
    LET entry_addr == IF entry_point # <<>> THEN entry_point[1] ELSE start_addr
    IN  <<"E","^">> \o format_hex(entry_addr, 6)

-----------------------------------------------------------------------------

(* The programs the assembler is run on *)

\* the longest program, in lines
MaxLines == 3

\* lines about addresses, symbols and errors
AddressLines ==
    {<<"L","D","A"," ","L","B","L">>, <<"L","B","L"," ","W","O","R","D"," ","7">>, <<"+","C","A","D","D"," ","L","B","L">>, <<"+","L","D","A"," ","#","1","A">>, <<"L","B","L"," ","F","O","O">>, <<"F","I","X">>,
     <<"T","O","P"," ","+","F","O","O"," ","L","B","L">>, <<"E","N","D">>}

\* lines about the Text and Modification records
RecordLines ==
    {<<"+","L","D","A"," ","B","U","F">>, <<"+","R","S","U","B">>, <<"R","S","U","B">>, <<"B","U","F"," ","R","E","S","W"," ","1">>, <<"B","U","F"," ","R","E","S","B"," ","-","3">>, <<"L","D","A"," ","#","1">>,
     <<"W","O","R","D"," ","5">>,
     <<"B","Y","T","E"," ","C","'","A","B","C","D","E","F","G","H","I","J","K","L","M","N","O","P","Q","R","S","T","U","V","W","X","Y","Z","0","1","'">>,
     <<"B","Y","T","E"," ","C","'","A","B","C","D","E","F","G","H","I","J","K","L","M","N","O","P","Q","R","S","T","U","V","W","X","Y","Z","0","1","2","3","4","'">>}

\* format-4 lines of every operand kind, and lines of other kinds
ModificationLines ==
    {<<"+","L","D","A"," ","B","U","F">>, <<"+","S","T","A"," ","@","B","U","F">>, <<"+","L","D","A"," ","#","B","U","F">>, <<"+","L","D","A"," ","#","5">>, <<"+","L","D","A"," ","5">>, <<"+","R","S","U","B">>,
     <<"L","D","A"," ","B","U","F">>, <<"B","U","F"," ","R","E","S","W"," ","1">>, <<"F","A","C","E"," ","+","L","D","A"," ","F","A","C","E">>}

\* lines of an input file: line numbers, comments, a line break, and
\* statements about START, END, operands named like opcodes and wide words
SourceLines ==
    {<<"1"," ","2"," ","F","I","X">>, <<"F","I","R","S","T"," ","F","I","X"," ",";"," ","e","n","t","r","y">>, <<"E","N","D"," ","F","I","R","S","T">>, <<"S","T","A","R","T"," ","1","A">>, <<"L","D","A"," ","J">>,
     <<"W","O","R","D"," ","1","6","7","7","7","2","1","6">>, <<";"," ","c","o","m","m","e","n","t"," ","o","n","l","y">>, <<"1","0"," ","C","O","P","Y"," ","S","T","A","R","T"," ","1","0">> \o <<"\n">>}

\* lines that set and clear BASE around references to a symbol, and the
\* reservation that puts those references out of PC-relative range of it
BaseLines == {<<"B","A","S","E"," ","T">>, <<"N","O","B","A","S","E">>, <<"L","D","A"," ","T">>, <<"S","T","A"," ","T">>}

FarReservation == <<"T"," ","R","E","S","B"," ","3","0","0","0">>

\* every program of 1..MaxLines lines over an alphabet of lines
Programs(alphabet) == UNION {[1..n -> alphabet] : n \in 1..MaxLines}

\* the locals of pass1 and pass2 before either has run
InitLocals ==
    /\ line_num = 1
    /\ error = None
    /\ symbol_table = <<>>
    /\ locctr = 0
    /\ start_addr = 0
    /\ program_name = None
    /\ program_length = 0
    /\ pass1_output = <<>>
    /\ pass2_output = <<>>
    /\ text_records = <<>>
    /\ modification_records = <<>>
    /\ current_text_record = <<>>
    /\ current_text_start = NoStart
    /\ current_text_length = 0
    /\ base_addr = NoBase

\* main, as pass1 is called on the preprocessed lines
InitOn(alphabet) ==
    /\ lines = None
    /\ intermediate_lines \in Programs(alphabet)
    /\ pc = "pass1"
    /\ InitLocals

Init == InitOn(AddressLines)

InitRecords == InitOn(RecordLines)

InitModification == InitOn(ModificationLines)

\* main, as pass1 is called on a reservation followed by lines about BASE
InitBase ==
    /\ lines = None
    /\ intermediate_lines \in {<<FarReservation>> \o p : p \in Programs(BaseLines)}
    /\ pc = "pass1"
    /\ InitLocals

\* main, as create_intermediate_file has read the input file
InitMain ==
    /\ lines \in Programs(SourceLines)
    /\ intermediate_lines = <<>>
    /\ pc = "preprocess"
    /\ InitLocals

\* one iteration of create_intermediate_file's loop
CreateIntermediateLine ==
    /\ pc = "preprocess"
    /\ line_num <= Len(lines)
    /\ line_num' = line_num + 1
    /\ intermediate_lines' =
          IF PreprocessLine(lines[line_num]) # <<>>
          THEN Append(intermediate_lines, PreprocessLine(lines[line_num]))
          ELSE intermediate_lines
    /\ UNCHANGED <<lines, pc, error, symbol_table, locctr, start_addr,
                   program_name, program_length, pass1_output, pass2_output,
                   text_records, modification_records, current_text_record,
                   current_text_start, current_text_length, base_addr>>

\* create_intermediate_file returns and main calls pass1
CreateIntermediateReturn ==
    /\ pc = "preprocess"
    /\ line_num > Len(lines)
    /\ pc' = "pass1"
    /\ line_num' = 1
    /\ lines' = None
    /\ UNCHANGED <<intermediate_lines, error, symbol_table, locctr, start_addr,
                   program_name, program_length, pass1_output, pass2_output,
                   text_records, modification_records, current_text_record,
                   current_text_start, current_text_length, base_addr>>

Next ==
    \/ Pass1Line
    \/ Pass1Return
    \/ Pass2Start
    \/ Pass2Line
    \/ Pass2Return

\* main from the reading of the input file on
NextMain ==
    \/ CreateIntermediateLine
    \/ CreateIntermediateReturn
    \/ Pass1Line
    \/ Pass1Return
    \/ Pass2Start
    \/ Pass2Line
    \/ Pass2Return

Spec == Init /\ [][Next]_vars

SpecRecords == InitRecords /\ [][Next]_vars

SpecModification == InitModification /\ [][Next]_vars

SpecBase == InitBase /\ [][Next]_vars

SpecMain == InitMain /\ [][NextMain]_vars
-----------------------------------------------------------------------------

(* Reading the state back: fields of the listings and of the records *)

\* the number a hexadecimal field of a listing or of a record stands for
HexValue(field) == IntOf16(field)

\* the bytes of an object code, each as its two hexadecimal digits
BytesOf(object_code) ==
    [k \in 0..((Len(object_code) \div 2) - 1) |->
        <<object_code[2 * k + 1], object_code[2 * k + 2]>>]

\* pass1 has returned its symbol table and listing to main
Pass1Returned == pc \in {"pass1_done", "pass2", "pass2_end", "pass2_done", "pass2_failed"}

\* the line pass1 or pass2 is about to process
AtLine(pass) == pc = pass /\ line_num <= Len(intermediate_lines)

-----------------------------------------------------------------------------

(* Addresses of the two passes *)

\* C1: for every line both passes list, the address in pass1's listing is the
\* address in pass2's listing: both passes advance LOCCTR by the same number
\* of bytes on every line.
ListingAddressesAgree ==
    \A i \in 1..Len(pass2_output) :
        i <= Len(pass1_output) => pass1_output[i].addr = pass2_output[i].addr

\* a format-3 instruction whose operand names a symbol of the table
Format3SymbolLine(line) ==
    LET p == parse_line(line)
    IN  /\ p.opcode \in OpcodeNames
        /\ OPCODES[p.opcode][2] = 3
        /\ p.operand # None
        /\ ~is_number(parse_operand(p.operand).value)
        /\ parse_operand(p.operand).value \in DOMAIN symbol_table

\* the b and p bits and the displacement field of a format-3 object code
BitB(object_code) == (HexValue(<<object_code[3]>>) \div 4) % 2
BitP(object_code) == (HexValue(<<object_code[3]>>) \div 2) % 2
DispField(object_code) == HexValue(SubSeq(object_code, 4, 6))

\* C2: a format-3 instruction at LOCCTR whose operand is a symbol defined at TA
\* is encoded from pc_disp = TA - (LOCCTR + 3): PC-relative (p=1, b=0, disp =
\* pc_disp in 12-bit two's complement) if -2048 <= pc_disp <= 2047; otherwise
\* base-relative (b=1, p=0, disp = TA - BASE) if BASE is set and
\* 0 <= TA - BASE <= 4095; otherwise with b = p = 0.
PcRelativeToNextInstruction ==
    [][ AtLine("pass2") /\ Format3SymbolLine(intermediate_lines[line_num])
        => LET TA == symbol_table[parse_operand(
                         parse_line(intermediate_lines[line_num]).operand).value]
               pc_disp == TA - (locctr + 3)
               code == pass2_output'[line_num].object_code
           IN  /\ Len(pass2_output') = line_num
               /\ Len(code) = 6
               /\ IF -2048 <= pc_disp /\ pc_disp <= 2047
                  THEN BitP(code) = 1 /\ BitB(code) = 0
                       /\ DispField(code) = pc_disp % 4096
                  ELSE IF base_addr # NoBase /\ 0 <= TA - base_addr[1]
                          /\ TA - base_addr[1] <= 4095
                  THEN BitB(code) = 1 /\ BitP(code) = 0
                       /\ DispField(code) = TA - base_addr[1]
                  ELSE BitB(code) = 0 /\ BitP(code) = 0 ]_vars

-----------------------------------------------------------------------------

(* Text records *)

\* C3: when pass2 returns, every Text record carries at most 30 bytes of
\* object code: its byte count is at most 30 and its payload at most 60
\* hexadecimal digits.
TextRecordsWithinCap ==
    pc = "pass2_done"
    => \A i \in DOMAIN text_records :
          /\ HexValue(text_records[i].length) <= MaxTextBytes
          /\ Len(text_records[i].code) <= 2 * MaxTextBytes

\* the addresses a Text record covers: [header, header + byte count)
RecordRange(r) == {HexValue(r.addr) + k : k \in 0..(HexValue(r.length) - 1)}

\* the bytes pass2 assigned to an address, by its listing (whose addresses are
\* the low 16 bits of LOCCTR)
AssignedAt(a) ==
    UNION {{BytesOf(pass2_output[i].object_code)[j] :
               j \in {k \in DOMAIN BytesOf(pass2_output[i].object_code) :
                        (HexValue(pass2_output[i].addr) + k) % 65536 = a % 65536}} :
           i \in DOMAIN pass2_output}

\* C4: when pass2 returns, the k-th payload byte of every Text record is the
\* byte pass2 assigned to address header + k, and the address ranges of any
\* two Text records are disjoint.
TextRecordsContiguousAndDisjoint ==
    pc = "pass2_done"
    => /\ \A i \in DOMAIN text_records :
             \A k \in DOMAIN BytesOf(text_records[i].code) :
                BytesOf(text_records[i].code)[k]
                    \in AssignedAt(HexValue(text_records[i].addr) + k)
       /\ \A i, j \in DOMAIN text_records :
             i # j => RecordRange(text_records[i]) \cap RecordRange(text_records[j]) = {}

-----------------------------------------------------------------------------

(* The symbol table *)

\* line i carries a label that pass1 enters in the symbol table: a label
\* before an opcode other than START
DefinesLabel(i) ==
    LET p == enhanced_parse_line(intermediate_lines[i])
    IN  p.label # None /\ p.opcode # None /\ p.opcode # <<"S","T","A","R","T">>

LabelAt(i) == enhanced_parse_line(intermediate_lines[i]).label

\* the lines pass1 listed that define symbol s
DefiningLines(s) == {i \in DOMAIN pass1_output : DefinesLabel(i) /\ LabelAt(i) = s}

\* C5: pass1 enters a label with the value LOCCTR has at the start of its line,
\* lists the line at that value and never changes the entry; so after pass1
\* returns every symbol's value is the address the Pass 1 listing prints for
\* the line that defines it.
SymbolsHoldLineAddresses ==
    /\ [][ AtLine("pass1") /\ DefinesLabel(line_num) /\ pc' # "pass1_failed"
           => /\ LabelAt(line_num) \in DOMAIN symbol_table'
              /\ symbol_table'[LabelAt(line_num)] = locctr
              /\ pass1_output'[line_num].addr = format_hex(locctr, 4) ]_vars
    /\ [][ \A s \in DOMAIN symbol_table :
              s \in DOMAIN symbol_table' /\ symbol_table'[s] = symbol_table[s] ]_vars
    /\ [](Pass1Returned
          => \A s \in DOMAIN symbol_table :
                \E i \in DefiningLines(s) :
                   pass1_output[i].addr = format_hex(symbol_table[s], 4))

\* pass1 has returned a symbol whose line is not the first of the program
SymbolDefinedPastStart ==
    Pass1Returned /\ \E s \in DOMAIN symbol_table : symbol_table[s] > 0

\* C8: a line that defines a label an earlier line defined makes pass1 fail
\* there with "Duplicate label"; so every symbol of a table pass1 returns has
\* exactly one defining line, whose address is its value.
DuplicateLabelFails ==
    /\ [][ /\ AtLine("pass1") /\ DefinesLabel(line_num)
           /\ \E i \in 1..(line_num - 1) :
                 DefinesLabel(i) /\ LabelAt(i) = LabelAt(line_num)
           => pc' = "pass1_failed" /\ error' = <<"Duplicate label", line_num>> ]_vars
    /\ [](Pass1Returned
          => \A s \in DOMAIN symbol_table :
                /\ Cardinality(DefiningLines(s)) = 1
                /\ \A i \in DefiningLines(s) :
                      HexValue(pass1_output[i].addr) = symbol_table[s])

\* pass1 has failed on the second definition of a label
DuplicateLabelRejected ==
    pc = "pass1_failed" /\ error # None /\ error[1] = "Duplicate label"

-----------------------------------------------------------------------------

(* Unknown mnemonics and undefined symbols *)

\* a mnemonic that is neither in the opcode table, with or without a '+'
\* prefix, nor a directive
UnknownMnemonic(opcode) ==
    /\ opcode # None
    /\ opcode \notin DIRECTIVES
    /\ opcode \notin OpcodeNames
    /\ ~(StartsWith(opcode, <<"+">>) /\ DropFirst(opcode, 1) \in OpcodeNames)

\* 'C' followed by a mnemonic of the opcode table: a conditional instruction
ConditionalMnemonic(base_opcode) ==
    /\ StartsWith(base_opcode, <<"C">>)
    /\ Len(base_opcode) > 1
    /\ DropFirst(base_opcode, 1) \in OpcodeNames

UndefinedOperandLine(line) ==
    LET p == parse_line(line)
    IN  /\ p.opcode # None
        /\ BaseOpcode(p.opcode) \in OpcodeNames
        /\ StartsWith(p.opcode, <<"+">>) \/ OPCODES[BaseOpcode(p.opcode)][2] = 3
        /\ p.operand # None
        /\ ~is_number(parse_operand(p.operand).value)
        /\ parse_operand(p.operand).value \notin DOMAIN symbol_table

-----------------------------------------------------------------------------

(* Modification records *)

\* C6: when pass2 returns, the address of every Modification record lies in
\* the range [header address, header address + byte count) of some Text
\* record.
ModificationsInsideTextRecords ==
    pc = "pass2_done"
    => \A m \in DOMAIN modification_records :
          \E r \in DOMAIN text_records :
             HexValue(modification_records[m].addr) \in RecordRange(text_records[r])

\* line i is a '+'-prefixed instruction: '+' before a mnemonic of the opcode
\* table or the conditional form of one
Format4Line(i) ==
    LET p == parse_line(intermediate_lines[i])
    IN  /\ p.opcode # None
        /\ StartsWith(p.opcode, <<"+">>)
        /\ \/ DropFirst(p.opcode, 1) \in OpcodeNames
           \/ ConditionalMnemonic(DropFirst(p.opcode, 1))

\* the operand of line i refers to a defined symbol in one of the modes
SymbolReference(i, modes) ==
    LET p == parse_line(intermediate_lines[i])
    IN  /\ p.operand # None
        /\ parse_operand(p.operand).mode \in modes
        /\ ~is_number(parse_operand(p.operand).value)
        /\ parse_operand(p.operand).value \in DOMAIN symbol_table

\* C7: a '+'-prefixed instruction at LOCCTR whose operand is a Simple or
\* Indirect reference to a defined symbol (a payload that is not a number and
\* is a key of the symbol table) appends exactly the record
\* M^<LOCCTR+1 as 6 hex digits>^05; with any other operand, or none, it
\* appends nothing; and no other line, nor any other step, appends a
\* Modification record.
ModificationOnlyForSymbolReference ==
    [][ IF AtLine("pass2") /\ pc' # "pass2_failed"
        THEN IF Format4Line(line_num)
                /\ SymbolReference(line_num, {"simple", "indirect"})
             THEN modification_records' =
                     Append(modification_records,
                            [addr |-> format_hex(locctr + 1, 6), length |-> <<"0","5">>])
             ELSE modification_records' = modification_records
        ELSE \/ modification_records' = modification_records
             \/ pc = "pass1_done" /\ modification_records' = <<>> ]_vars

\* pass2 returned one Modification record for a program that also holds a
\* format-4 instruction with an immediate reference to a defined symbol
ModificationAppendedAndWithheld ==
    /\ pc = "pass2_done"
    /\ Len(modification_records) = 1
    /\ \E i \in DOMAIN pass2_output :
          Format4Line(i) /\ SymbolReference(i, {"immediate"})

-----------------------------------------------------------------------------
\* C16: preprocessing is idempotent: once create_intermediate_file has gone
\* through every line read, applying it to the lines it produced returns
\* those lines unchanged.
PreprocessingIdempotent ==
    (pc = "preprocess" /\ line_num > Len(lines))
        => create_intermediate_file(intermediate_lines) = intermediate_lines


-----------------------------------------------------------------------------

(* BASE and NOBASE *)

\* the opcode pass2 reads on line i
Pass2Opcode(i) == parse_line(intermediate_lines[i]).opcode

\* line i comes after a NOBASE line with no BASE line in between
AfterNoBase(i) ==
    \E j \in 1..(i - 1) :
        /\ Pass2Opcode(j) = <<"N","O","B","A","S","E">>
        /\ \A k \in (j + 1)..(i - 1) : Pass2Opcode(k) # <<"B","A","S","E">>

\* C11: after a NOBASE line and until the next BASE line no format-3
\* instruction is encoded base-relative (b = 1), whatever BASE value was in
\* effect before the NOBASE.
NoBaseRelativeAfterNoBase ==
    \A i \in DOMAIN pass2_output :
        LET line == pass2_output[i].line
            code == pass2_output[i].object_code
        IN  (AfterNoBase(line) /\ Format3SymbolLine(intermediate_lines[line])
             /\ Len(code) = 6)
                => BitB(code) = 0


-----------------------------------------------------------------------------

(* The End record *)

\* the lines pass2 reads as END lines
EndLines == {i \in DOMAIN intermediate_lines : Pass2Opcode(i) = <<"E","N","D">>}

\* the operand of the END line pass2 stops at
EndOperand ==
    parse_line(intermediate_lines[CHOOSE i \in EndLines :
                                      \A j \in EndLines : i <= j]).operand

\* C12: the End record carries the address of the symbol that the END line's
\* operand names when END has an operand, and the program's start address
\* when END has no operand.
EndRecordCarriesEndOperand ==
    (pc = "pass2_done" /\ EndLines # {})
        => /\ EndOperand \in DOMAIN symbol_table
                => EndRecord = <<"E","^">> \o format_hex(symbol_table[EndOperand], 6)
           /\ EndOperand = None
                => EndRecord = <<"E","^">> \o format_hex(start_addr, 6)


-----------------------------------------------------------------------------

(* Instructions without an operand *)

\* the mnemonic of an opcode field without its '+' prefix
Mnemonic(opcode) == IF StartsWith(opcode, <<"+">>) THEN DropFirst(opcode, 1) ELSE opcode

\* a line pass2 reads as a format-3 or format-4 instruction with no operand
NoOperandInstruction(line) ==
    LET p == parse_line(line)
    IN  /\ p.opcode # None
        /\ Mnemonic(p.opcode) \in OpcodeNames
        /\ OPCODES[Mnemonic(p.opcode)][2] = 3
        /\ p.operand = None

\* C13: an instruction with no operand is encoded as a Simple reference
\* (n = 1, i = 1) to address 0: opcode + 3 followed by 0000 in format 3
\* (RSUB: 4F0000) and by 100000 (e = 1) in format 4 (+RSUB: 4F100000).
NoOperandEncodedSimple ==
    \A i \in DOMAIN pass2_output :
        LET line == intermediate_lines[pass2_output[i].line]
            opcode == parse_line(line).opcode
            first == Format0X(HexValue(OPCODES[Mnemonic(opcode)][1]) + 3, 2)
        IN  NoOperandInstruction(line)
                => pass2_output[i].object_code =
                       first \o (IF StartsWith(opcode, <<"+">>) THEN <<"1","0","0","0","0","0">>
                                 ELSE <<"0","0","0","0">>)


-----------------------------------------------------------------------------

(* The START line *)

\* the number an operand of START stands for: decimal, else hexadecimal
StartValue(operand) ==
    IF IsDecimal(operand) THEN IntOf(operand) ELSE IntOf16(operand)

\* a START line, as the given parse reads it, with a decimal or hexadecimal
\* operand
NumericStartLine(p) ==
    /\ p.opcode = <<"S","T","A","R","T">>
    /\ p.operand # None
    /\ IsDecimal(p.operand) \/ IsHexadecimal(p.operand)

\* C14: on a START line pass1 parses the operand as decimal and, when it is
\* not decimal, as hexadecimal, and sets start_addr and LOCCTR to that value;
\* pass2 resets its LOCCTR to the same value on that line (START 1A gives
\* 26 in both passes).
StartOperandDecimalThenHex ==
    [][ /\ (AtLine("pass1")
            /\ NumericStartLine(enhanced_parse_line(intermediate_lines[line_num])))
           => LET v == StartValue(
                           enhanced_parse_line(intermediate_lines[line_num]).operand)
              IN  pc' = "pass1" /\ start_addr' = v /\ locctr' = v
        /\ (AtLine("pass2")
            /\ NumericStartLine(parse_line(intermediate_lines[line_num])))
           => LET v == StartValue(parse_line(intermediate_lines[line_num]).operand)
              IN  pc' = "pass2" /\ locctr' = v ]_vars


-----------------------------------------------------------------------------

(* The location counter of pass 1 *)

\* C15: LOCCTR never decreases during pass 1: after a line that pass1
\* processes without error it is not smaller than before the line; so the
\* program length pass1 returns is not negative and no symbol has an address
\* below start_addr.
LocctrNeverDecreases ==
    /\ [][(AtLine("pass1") /\ pc' # "pass1_failed") => locctr' >= locctr]_vars
    /\ [](pc = "pass1_done"
            => /\ program_length >= 0
               /\ \A s \in DOMAIN symbol_table : symbol_table[s] >= start_addr)


-----------------------------------------------------------------------------

(* Instruction lengths in pass 1 *)

\* C17: in pass 1 an instruction line advances LOCCTR by the length of its
\* format: 4 for a mnemonic of the opcode table written with a '+' prefix,
\* otherwise the format (1, 2 or 3) the table records for the mnemonic,
\* also for the mnemonics that begin with the letter C.
InstructionAdvancesByFormat ==
    [][ LET opcode == enhanced_parse_line(intermediate_lines[line_num]).opcode
        IN  (AtLine("pass1") /\ opcode # None /\ Mnemonic(opcode) \in OpcodeNames
             /\ pc' = "pass1")
                => locctr' = locctr + (IF StartsWith(opcode, <<"+">>) THEN 4
                                       ELSE OPCODES[Mnemonic(opcode)][2]) ]_vars


-----------------------------------------------------------------------------

(* The two line parsers *)

\* the disambiguation rule on the whitespace-separated tokens of a line: a
\* first token that is an opcode word is the opcode and there is no label;
\* otherwise the first token is the label and the second, if any, the opcode
FollowsFirstTokenRule(parsed, line) ==
    LET tokens == SplitWs(Strip(line))
    IN  IF tokens = <<>> THEN parsed.label = None /\ parsed.opcode = None
        ELSE IF IsOpcodeWord(Upper(tokens[1]))
        THEN parsed.label = None /\ parsed.opcode = Upper(tokens[1])
        ELSE /\ parsed.label = tokens[1]
             /\ parsed.opcode = IF Len(tokens) > 1 THEN Upper(tokens[2]) ELSE None

\* C18: both passes decompose a line by the same rule on its first token, so
\* enhanced_parse_line (pass1) and parse_line (pass2) return the same label
\* and the same opcode for every line that the passes have parsed.
ParsersAgree ==
    \A i \in DOMAIN pass2_output :
        LET line == intermediate_lines[pass2_output[i].line]
        IN  /\ FollowsFirstTokenRule(enhanced_parse_line(line), line)
            /\ FollowsFirstTokenRule(parse_line(line), line)
            /\ enhanced_parse_line(line).label = parse_line(line).label
            /\ enhanced_parse_line(line).opcode = parse_line(line).opcode


-----------------------------------------------------------------------------

(* The record builder *)

\* the object codes of the lines pass2 has processed, in source order
ListedObjectCodes == [i \in DOMAIN pass2_output |-> pass2_output[i].object_code]

\* the payloads of the Text records, in order
RecordPayloads == [i \in DOMAIN text_records |-> text_records[i].code]

\* C19: the record builder neither loses, duplicates nor reorders object
\* code: when pass2 returns, the payloads of the Text records, concatenated
\* in order, are the object codes of the processed lines in source order and
\* no Text record is empty; and the byte count of every record the builder
\* closes is the running length counter it kept for that record.
RecordBuilderKeepsObjectCode ==
    /\ [](pc = "pass2_done"
            => /\ Concat(RecordPayloads) = Concat(ListedObjectCodes)
               /\ \A i \in DOMAIN text_records : text_records[i].code # <<>>)
    /\ [][Len(text_records') = Len(text_records) + 1
            => text_records'[Len(text_records')].length
                   = Format0X(current_text_length, 2)]_vars

=============================================================================
